---- MODULE Spec2Model ----
(***************************************************************************)
(* Browrooms: the Website fetcher (URL parsing, connect, GET request,      *)
(* chunked read with progressive decoding, redirect handling) and the      *)
(* wrapper the Browser shell puts around it (fetch_html / getWeb); and the  *)
(* Browser shell itself: its event handlers on the thread of the wx main   *)
(* loop, the worker threads load_page starts, and the history they share.  *)
(*                                                                         *)
(* Representation of text.  A text is a sequence of integers.  A number    *)
(* >= 0 is one byte (in a byte stream) or one code point (in a decoded     *)
(* string).  A number < 0 abbreviates a fixed, pure-ASCII string such as   *)
(* "HTTP/1.1 301 Moved Permanently"; ASCII decodes to itself under every   *)
(* codec the program uses and can be cut anywhere by recv without          *)
(* changing the decoded text, so an abbreviation is carried through the    *)
(* decoders unchanged.                                                     *)
(***************************************************************************)
EXTENDS Integers, Sequences, FiniteSets, TLC

VARIABLES
    frames,     \* stack of Website objects whose get_html is active
    sockets,    \* every socket created so far, in creation order
    server,     \* the byte streams a peer may answer a connection with
    returned,   \* outcomes of the fetches the shell has completed
    threads,        \* the main-loop thread and the workers: where each is
    history,        \* Browser.history
    historyPointer, \* Browser.historyPointer
    callAfter,      \* pages handed to wx.CallAfter and not yet shown
    webView         \* the page the view shows

vars == <<frames, sockets, server, returned,
          threads, history, historyPointer, callAfter, webView>>

\* the state of one fetch, and the state of the Browser
fetcher == <<frames, sockets, server, returned>>

shell == <<threads, history, historyPointer, callAfter, webView>>

(***************************** bounds **************************************)
MaxLen == 3        \* longest byte stream of SpecRead
MaxCalls == 2      \* fetches of the same URL in SpecRead
MaxHops == 3       \* deepest nesting of Website objects (redirect hops + 1)
                   \* the interpreter's recursion limit leaves room for
MaxPort == 3       \* most digits of an explicit port in SpecParse
MaxWorkers == 2    \* threads load_page starts in SpecUI
MaxQueue == 2      \* most pages waiting in wx.CallAfter in SpecUI

(************************** string literals ********************************)
S301 == -1         \* "HTTP/1.1 301 Moved Permanently"
S302 == -2         \* "HTTP/1.1 302 Found"
CRLF == -3         \* "\r\n"
LOCL == -4         \* "location:"
Replacement == 65533   \* U+FFFD, the replacement character
RecvSize == 512

ErrConn == << -11 >>      \* "<p>Error: Could not establish connection.</p>"
ErrEncoding == << -12 >>  \* "<p>Error: Unknown Encoding</p>"
ErrEmpty == << -13 >>     \* "<p>Error: Empty response from the server.</p>"
ErrRecv == << -14 >>      \* "<p>Error receiving data.</p>"
ErrNoLoc == << -15 >>     \* "<p>Error: No new location provided.</p>"
ErrFailed == << -16 >>    \* "<p>Failed to load content.</p>"

\* Texts a peer may send that the program has no literal for.
Other(i) == -(100 + i)
S200 == Other(1)          \* "HTTP/1.1 200 OK"
S404 == Other(2)          \* "HTTP/1.1 404 Not Found"
LocationHdr == Other(3)   \* "Location:"
XHdr == Other(4)          \* "Server: x"
Body == Other(5)          \* "<html>...</html>", some ASCII body text
SP == 32                  \* " "
UrlTok(i) == -(200 + i)   \* the text of UrlTable[i]

(****************************** helpers ************************************)
Min(a, b) == IF a < b THEN a ELSE b

Range(s) == {s[i] : i \in DOMAIN s}

Seqs(S, n) == UNION {[1..k -> S] : k \in 0..n}

RECURSIVE Concat(_)
Concat(ss) ==
    IF ss = << >> THEN << >> ELSE Head(ss) \o Concat(Tail(ss))

(************************* str / bytes methods *****************************)
\* bytes.decode('utf-8', errors='replace'): every maximal ill-formed
\* subsequence becomes one U+FFFD.
IsCont(b) == b \in 128..191

Utf8Need(b) ==
    IF b \in 194..223 THEN 1
    ELSE IF b \in 224..239 THEN 2
    ELSE IF b \in 240..244 THEN 3
    ELSE 0

TrailOk(lead, m, b) ==
    IF m > 1 THEN IsCont(b)
    ELSE CASE lead = 224 -> b \in 160..191
           [] lead = 237 -> b \in 128..159
           [] lead = 240 -> b \in 144..191
           [] lead = 244 -> b \in 128..143
           [] OTHER -> IsCont(b)

\* number of well-formed trailing bytes that follow the lead byte at i
Trail(data, i) ==
    LET need == Utf8Need(data[i])
        ok(m) == i + m <= Len(data) /\ TrailOk(data[i], m, data[i + m])
    IN  CHOOSE k \in 0..need :
            /\ \A m \in 1..k : ok(m)
            /\ k = need \/ ~ok(k + 1)

CodePoint(data, i) ==
    LET b == data[i]
        c(m) == data[i + m] - 128
    IN  CASE Utf8Need(b) = 1 -> (b - 192) * 64 + c(1)
          [] Utf8Need(b) = 2 -> (b - 224) * 4096 + c(1) * 64 + c(2)
          [] Utf8Need(b) = 3 ->
                (b - 240) * 262144 + c(1) * 4096 + c(2) * 64 + c(3)

RECURSIVE Utf8From(_, _)
Utf8From(data, i) ==
    IF i > Len(data) THEN << >>
    ELSE IF data[i] < 128 THEN << data[i] >> \o Utf8From(data, i + 1)
    ELSE IF Utf8Need(data[i]) = 0
         THEN << Replacement >> \o Utf8From(data, i + 1)
    ELSE IF Trail(data, i) = Utf8Need(data[i])
         THEN << CodePoint(data, i) >>
                  \o Utf8From(data, i + 1 + Utf8Need(data[i]))
    ELSE << Replacement >> \o Utf8From(data, i + 1 + Trail(data, i))

DecodeUtf8(data) == Utf8From(data, 1)

\* strict decoding succeeds: no ill-formed subsequence anywhere
RECURSIVE Utf8ValidFrom(_, _)
Utf8ValidFrom(data, i) ==
    IF i > Len(data) THEN TRUE
    ELSE IF data[i] < 128 THEN Utf8ValidFrom(data, i + 1)
    ELSE /\ Utf8Need(data[i]) > 0
         /\ Trail(data, i) = Utf8Need(data[i])
         /\ Utf8ValidFrom(data, i + 1 + Utf8Need(data[i]))

IsValidUtf8(data) == Utf8ValidFrom(data, 1)

\* a Latin-1 decoder that knows only ASCII: every byte from 128 up becomes
\* the replacement character
DecodeLatin1Ascii(data) ==
    [i \in DOMAIN data |-> IF data[i] < 128 THEN data[i] ELSE Replacement]

\* bytes.decode('latin-1') and bytes.decode('ISO-8859-1'): the same codec,
\* byte b is code point b; no byte is undecodable.
DecodeLatin1(data) == [i \in DOMAIN data |-> data[i]]

DecodeIso(data) == [i \in DOMAIN data |-> data[i]]

\* str.lower(), on the one abbreviation whose case matters and on A-Z
Lower(c) ==
    IF c = LocationHdr THEN LOCL
    ELSE IF c \in 65..90 THEN c + 32
    ELSE c

Whitespace == {9, 10, 11, 12, 13, 28, 29, 30, 31, 32, CRLF}

\* str.strip()
RECURSIVE Strip(_)
Strip(s) ==
    IF s = << >> THEN s
    ELSE IF Head(s) \in Whitespace THEN Strip(Tail(s))
    ELSE IF s[Len(s)] \in Whitespace THEN Strip(SubSeq(s, 1, Len(s) - 1))
    ELSE s

\* str.split(sep) for a one-unit separator: the pieces between separators
RECURSIVE Split(_, _)
Split(s, sep) ==
    IF \A i \in DOMAIN s : s[i] # sep THEN << s >>
    ELSE LET i == CHOOSE j \in DOMAIN s :
                      s[j] = sep /\ \A k \in 1..(j - 1) : s[k] # sep
         IN  << SubSeq(s, 1, i - 1) >> \o Split(SubSeq(s, i + 1, Len(s)), sep)

(******************************* URLs ***************************************)
(* A URL string is held as the parts urllib.parse.urlparse splits it into: *)
(* its scheme (lower-cased by urlparse), its authority as a sequence of    *)
(* atoms (":" is one atom, a digit is one atom, any other atom is a run of *)
(* characters with neither), and its path.                                 *)
(***************************************************************************)
Url(scheme, netloc, path) ==
    [scheme |-> scheme, netloc |-> netloc, path |-> path,
     params |-> "", query |-> "", fragment |-> ""]

Digits == {"0", "1", "2", "3", "4", "5", "6", "7", "8", "9"}

DigitVal(d) ==
    CASE d = "0" -> 0 [] d = "1" -> 1 [] d = "2" -> 2 [] d = "3" -> 3
      [] d = "4" -> 4 [] d = "5" -> 5 [] d = "6" -> 6 [] d = "7" -> 7
      [] d = "8" -> 8 [] d = "9" -> 9

\* int(s) accepts s: a non-empty run of decimal digits
IsDecimal(s) == s # << >> /\ \A i \in DOMAIN s : s[i] \in Digits

\* int(s) for such an s
RECURSIVE IntOf(_)
IntOf(s) ==
    IF s = << >> THEN 0
    ELSE IntOf(SubSeq(s, 1, Len(s) - 1)) * 10 + DigitVal(s[Len(s)])

\* The URLs the shell and the Location headers of this model use.
UrlTable ==
    << Url("http", <<"a">>, "/"),                               \* http://a/
       [Url("https", <<"b">>, "") EXCEPT !.query = "q=1"],      \* https://b?q=1
       Url("http", <<"a", ":", "x">>, "/"),                     \* http://a:x/
       Url("http", <<"a", ":", "9", "9", "9", "9", "9">>, "/"), \* http://a:99999/
       [Url("http", <<"a", ":", "4", "4", "3">>, "/x")          \* http://a:443/x?q=1#f
           EXCEPT !.query = "q=1", !.fragment = "f"],
       [Url("https", <<"b", ":", "8", "0">>, "/")               \* https://b:80/;p
           EXCEPT !.params = "p"]
    >>

\* The URL string a text spells: an abbreviation spells its table entry, any
\* other text has no "//" and so is all path.
UrlOfText(text) ==
    IF Len(text) = 1 /\ \E i \in DOMAIN UrlTable : text[1] = UrlTok(i)
    THEN UrlTable[CHOOSE i \in DOMAIN UrlTable : text[1] = UrlTok(i)]
    ELSE Url("", << >>, "relative")

\* Website.__parse_url: host, port and cmd (the path, params, query and
\* fragment run together, here the sequence of the non-empty ones); raised =
\* "ValueError" when int() rejects the second ":"-separated piece of the
\* authority, and then cmd is never set.
ParseUrl(url) ==
    LET pieces == Split(url.netloc, ":")
        default == IF url.scheme = "https" THEN 443 ELSE 80
        explicit == ":" \in Range(url.netloc)
    IN  [ host |-> pieces[1],
          port |-> IF ~explicit THEN default
                   ELSE IF IsDecimal(pieces[2]) THEN IntOf(pieces[2])
                   ELSE default,
          raised |-> IF explicit /\ ~IsDecimal(pieces[2])
                     THEN "ValueError" ELSE "",
          cmd |-> IF explicit /\ ~IsDecimal(pieces[2]) THEN << >>
                  ELSE SelectSeq(<< url.path, url.params, url.query,
                                    url.fragment >>,
                                 LAMBDA x : x # "") ]

(************************* sockets and Websites ****************************)
NoSocket == 0      \* self.browser_socket = None

NewSocket(host, port, hop, call) ==
    [ host |-> host, port |-> port,
      tls |-> FALSE,        \* wrapped in a TLS session
      state |-> "created",  \* created | connected | failed | broken
      closes |-> 0,         \* calls of close() on it
      rest |-> << >>,       \* what the peer has still to send
      sent |-> << >>,       \* requests written to it
      hop |-> hop,          \* depth of the Website that created it
      call |-> call ]       \* the fetch of the shell it belongs to

\* a Website object between "self.url = url" and the rest of __init__
NewWebsite(url) ==
    [ url |-> url, host |-> << >>, port |-> 0, cmd |-> << >>,
      sock |-> NoSocket,
      pc |-> "init", exc |-> "",
      response_utf8 |-> << >>, response_latin1 |-> << >>,
      response_iso |-> << >>,
      response |-> << >>, assigned |-> FALSE,   \* response is bound
      eof |-> FALSE,                            \* the read loop hit "break"
      new_location |-> << >>, result |-> << >> ]

Top == frames[Len(frames)]

SetTop(f) == [frames EXCEPT ![Len(frames)] = f]

\* "return v" in get_html / handle_status of the innermost Website
Return(f, v) == [f EXCEPT !.pc = "returned", !.result = v]

CurrentCall == Len(returned) + 1

\* What socket.connect can do: a port outside 0..65535 is refused with
\* OverflowError once the host has resolved; every other failure is an
\* OSError (socket.error), which also covers a failed TLS handshake.
ConnectResults(port) ==
    IF port \in 0..65535 THEN {"ok", "OSError"}
    ELSE {"OSError", "OverflowError"}

\* a Website that wraps its socket when the scheme is https
UsesTlsByScheme(url, port) == url.scheme = "https"

\* Website.__init__: "if self.port == 443" decides the TLS wrap
UsesTls(url, port) == port = 443

(***************************** Website *************************************)
\* Website.__init__ after "self.url = url": __parse_url, socket(), the TLS
\* wrap when the port is 443, connect; "except socket.error" turns an
\* OSError into browser_socket = None and lets anything else out.
Construct ==
    /\ frames # << >>
    /\ Top.pc = "init"
    /\ LET p == ParseUrl(Top.url)
           id == Len(sockets) + 1
           made == [NewSocket(p.host, p.port, Len(frames), CurrentCall)
                       EXCEPT !.tls = UsesTls(Top.url, p.port)]
           web == [Top EXCEPT !.host = p.host, !.port = p.port,
                              !.cmd = p.cmd]
       IN  IF p.raised # ""
           THEN /\ frames' = SetTop([web EXCEPT !.pc = "raised",
                                                !.exc = p.raised])
                /\ UNCHANGED sockets
           ELSE \E r \in ConnectResults(p.port), stream \in server :
                   CASE r = "ok" ->
                          /\ sockets' = Append(sockets,
                                 [made EXCEPT !.state = "connected",
                                              !.rest = stream])
                          /\ frames' = SetTop([web EXCEPT !.sock = id,
                                                          !.pc = "send"])
                     [] r = "OSError" ->
                          /\ sockets' = Append(sockets,
                                 [made EXCEPT !.state = "failed"])
                          /\ frames' = SetTop([web EXCEPT !.sock = NoSocket,
                                                          !.pc = "send"])
                     [] OTHER ->
                          /\ sockets' = Append(sockets,
                                 [made EXCEPT !.state = "failed"])
                          /\ frames' = SetTop([web EXCEPT !.sock = id,
                                                          !.pc = "raised",
                                                          !.exc = r])
    /\ UNCHANGED <<server, returned, shell>>

\* An exception leaving Website(...): inside handle_status it is caught by
\* the "except Exception" of the calling get_html; in fetch_html / getWeb
\* nothing catches it.
Propagate ==
    /\ frames # << >>
    /\ Top.pc = "raised"
    /\ IF Len(frames) = 1
       THEN /\ frames' = << >>
            /\ returned' = Append(returned,
                               [kind |-> "raise", val |-> << >>])
       ELSE /\ frames' = [SubSeq(frames, 1, Len(frames) - 1)
                             EXCEPT ![Len(frames) - 1] = Return(@, ErrRecv)]
            /\ UNCHANGED returned
    /\ UNCHANGED <<sockets, server, shell>>

\* a request whose target is cmd, the path with params, query and fragment
RequestWithCmd(web) ==
    [ method |-> "GET",
      target |-> IF web.cmd # << >> THEN web.cmd ELSE << "/" >>,
      version |-> "HTTP/1.1",
      headers |-> << << "Host", web.host >>,
                     << "Connection", << "close" >> >> >> ]

\* the request get_html writes: the request line (the target is one piece,
\* the path or "/") and the header lines, each a name and a value
Request(web) ==
    [ method |-> "GET",
      target |-> << IF web.url.path # "" THEN web.url.path ELSE "/" >>,
      version |-> "HTTP/1.1",
      headers |-> << << "Host", web.host >>,
                     << "Connection", << "close" >> >> >> ]

\* get_html up to sendall
Send ==
    /\ frames # << >>
    /\ Top.pc = "send"
    /\ IF Top.sock = NoSocket
       THEN /\ frames' = SetTop(Return(Top, ErrConn))
            /\ UNCHANGED sockets
       ELSE \E ok \in BOOLEAN :
               IF ok
               THEN /\ sockets' = [sockets EXCEPT ![Top.sock].sent =
                                       Append(@, Request(Top))]
                    /\ frames' = SetTop([Top EXCEPT !.pc = "recv"])
               ELSE /\ sockets' = [sockets EXCEPT ![Top.sock].state = "broken"]
                    /\ frames' = SetTop(Return(Top, ErrRecv))
    /\ UNCHANGED <<server, returned, shell>>

\* Website.get_location: the value of the first line that starts with
\* "location:" in any case, or None
get_location(response) ==
    LET lines == Split(response, CRLF)
        hit(i) == lines[i] # << >> /\ Lower(lines[i][1]) = LOCL
    IN  IF \E i \in DOMAIN lines : hit(i)
        THEN LET i == CHOOSE j \in DOMAIN lines :
                          hit(j) /\ \A k \in 1..(j - 1) : ~hit(k)
             IN  [found |-> TRUE, value |-> Strip(Tail(lines[i]))]
        ELSE [found |-> FALSE, value |-> << >>]

\* the test of handle_status: either literal anywhere in the response
IsRedirect(response) ==
    S301 \in Range(response) \/ S302 \in Range(response)

\* handle_status without its else branch: a redirect that names no
\* location falls through to "return response"
handle_status_fallthrough(web, response) ==
    LET loc == get_location(response)
    IN  IF IsRedirect(response) /\ loc.found /\ loc.value # << >>
        THEN [web EXCEPT !.pc = "redirect", !.new_location = loc.value]
        ELSE Return(web, response)

\* Website.handle_status up to the construction of the redirect Website
handle_status(web, response) ==
    IF IsRedirect(response)
    THEN LET loc == get_location(response)
         IN  IF loc.found /\ loc.value # << >>
             THEN [web EXCEPT !.pc = "redirect", !.new_location = loc.value]
             ELSE Return(web, ErrNoLoc)
    ELSE Return(web, response)

\* a read loop that picks the encoding chunk by chunk and appends the
\* chunk's text under it
ReadChunkPerChunk(web, data) ==
    LET u == DecodeUtf8(data)
        w == [web EXCEPT !.response_utf8 = @ \o u,
                         !.response_latin1 = @ \o DecodeLatin1(data),
                         !.response_iso = @ \o DecodeIso(data)]
    IN  [w EXCEPT !.response = @ \o (IF Replacement \notin Range(u)
                                     THEN u ELSE DecodeLatin1(data)),
                  !.assigned = TRUE]

\* a read loop that accepts UTF-8 only
ReadChunkUtf8Only(web, data) ==
    LET u == web.response_utf8 \o DecodeUtf8(data)
        w == [web EXCEPT !.response_utf8 = u,
                         !.response_latin1 = @ \o DecodeLatin1(data),
                         !.response_iso = @ \o DecodeIso(data)]
    IN  IF Replacement \notin Range(u)
        THEN [w EXCEPT !.response = u, !.assigned = TRUE]
        ELSE Return(w, ErrEncoding)

\* one pass of the read loop on the chunk recv returned
ReadChunk(web, data) ==
    LET u == web.response_utf8 \o DecodeUtf8(data)
        l == web.response_latin1 \o DecodeLatin1(data)
        i == web.response_iso \o DecodeIso(data)
        w == [web EXCEPT !.response_utf8 = u, !.response_latin1 = l,
                         !.response_iso = i]
    IN  IF Replacement \notin Range(u)
        THEN [w EXCEPT !.response = u, !.assigned = TRUE]
        ELSE IF Replacement \notin Range(l)
        THEN [w EXCEPT !.response = l, !.assigned = TRUE]
        ELSE IF Replacement \notin Range(i)
        THEN [w EXCEPT !.response = i, !.assigned = TRUE]
        ELSE Return(w, ErrEncoding)

\* get_html after the loop: "response" is unbound when no chunk came, and
\* the NameError is caught by "except Exception"
AfterLoop(web) ==
    LET w == [web EXCEPT !.eof = TRUE]
    IN  IF ~w.assigned THEN Return(w, ErrRecv)
        ELSE IF w.response = << >> THEN Return(w, ErrEmpty)
        ELSE handle_status(w, w.response)

\* one recv(512): -1 is an exception, 0 the end of the stream
Recv ==
    /\ frames # << >>
    /\ Top.pc = "recv"
    /\ LET rest == sockets[Top.sock].rest
       IN  \E n \in {-1} \cup (IF rest = << >> THEN {0}
                               ELSE 1..Min(RecvSize, Len(rest))) :
              CASE n = -1 ->
                     /\ sockets' = [sockets EXCEPT ![Top.sock].state = "broken"]
                     /\ frames' = SetTop(Return(Top, ErrRecv))
                [] n = 0 ->
                     /\ frames' = SetTop(AfterLoop(Top))
                     /\ UNCHANGED sockets
                [] OTHER ->
                     /\ sockets' = [sockets EXCEPT ![Top.sock].rest =
                                        SubSeq(rest, n + 1, Len(rest))]
                     /\ frames' = SetTop(ReadChunk(Top, SubSeq(rest, 1, n)))
    /\ UNCHANGED <<server, returned, shell>>

\* a handle_status that closes its own connection before it constructs
\* the redirect Website
RedirectAfterClose ==
    /\ frames # << >>
    /\ Top.pc = "redirect"
    /\ Len(frames) < MaxHops
    /\ sockets' = [sockets EXCEPT ![Top.sock].closes = @ + 1]
    /\ frames' = Append(SetTop([Top EXCEPT !.pc = "wait"]),
                        NewWebsite(UrlOfText(Top.new_location)))
    /\ UNCHANGED <<server, returned, shell>>

\* a handle_status that follows a redirect only from the first Website of
\* a fetch
RedirectDepthOne ==
    /\ frames # << >>
    /\ Top.pc = "redirect"
    /\ IF Len(frames) < 2
       THEN frames' = Append(SetTop([Top EXCEPT !.pc = "wait"]),
                             NewWebsite(UrlOfText(Top.new_location)))
       ELSE frames' = SetTop(Return(Top, ErrNoLoc))
    /\ UNCHANGED <<sockets, server, returned, shell>>

\* handle_status: "redirect = Website(new_location)".  Every hop nests a
\* get_html and a handle_status call inside the previous ones; when the
\* nesting has used up the interpreter's recursion limit the call raises
\* RecursionError, which the "except Exception" of the get_html that made
\* it turns into the "error receiving data" fragment.
Redirect ==
    /\ frames # << >>
    /\ Top.pc = "redirect"
    /\ IF Len(frames) < MaxHops
       THEN frames' = Append(SetTop([Top EXCEPT !.pc = "wait"]),
                             NewWebsite(UrlOfText(Top.new_location)))
       ELSE frames' = SetTop(Return(Top, ErrRecv))
    /\ UNCHANGED <<sockets, server, returned, shell>>

\* Website.close
close(socks, id) ==
    IF id # NoSocket THEN [socks EXCEPT ![id].closes = @ + 1] ELSE socks

\* handle_status after "source = redirect.get_html()": redirect.close(),
\* return source
Unwind ==
    /\ Len(frames) > 1
    /\ Top.pc = "returned"
    /\ sockets' = close(sockets, Top.sock)
    /\ frames' = [SubSeq(frames, 1, Len(frames) - 1)
                     EXCEPT ![Len(frames) - 1] = Return(@, Top.result)]
    /\ UNCHANGED <<server, returned, shell>>

(************************ the shell's wrapper ******************************)
\* Browser.fetch_html / Browser.getWeb: "web = Website(url=url)"
Begin(urls, calls) ==
    /\ frames = << >>
    /\ Len(returned) < calls
    /\ \E u \in urls : frames' = << NewWebsite(u) >>
    /\ UNCHANGED <<sockets, server, returned, shell>>

\* Browser.fetch_html / Browser.getWeb after "source = web.get_html()":
\* the page is handed to the view, and web is closed when source is truthy
Deliver ==
    /\ Len(frames) = 1
    /\ Top.pc = "returned"
    /\ IF Top.result # << >>
       THEN /\ returned' = Append(returned,
                               [kind |-> "return", val |-> Top.result])
            /\ sockets' = close(sockets, Top.sock)
       ELSE /\ returned' = Append(returned,
                               [kind |-> "return", val |-> ErrFailed])
            /\ UNCHANGED sockets
    /\ frames' = << >>
    /\ UNCHANGED <<server, shell>>

(**************************** the peers ************************************)
\* an HTTP response: status line, header lines, blank line, body
Resp(status, headers, body) ==
    << status, CRLF >>
        \o Concat([i \in DOMAIN headers |-> headers[i] \o << CRLF >>])
        \o << CRLF >> \o body

Location(i) == << LocationHdr, SP, UrlTok(i) >>

\* What the peers of Spec may answer: nothing at all, plain responses,
\* redirects with and without a Location, and plain responses whose body
\* quotes a redirect status line.
LineStreams ==
    { << >> }
    \cup { Resp(st, << >>, << Body >>) : st \in {S200, S404} }
    \cup { Resp(S200, << Location(1) >>, << Body >>),
           Resp(S200, << >>, << S302 >>),
           Resp(S200, << >>, << S302, CRLF, LOCL, UrlTok(1) >>),
           Resp(S301, << >>, << >>),
           Resp(S302, << << XHdr >> >>, << Body >>),
           Resp(S301, << << LocationHdr >> >>, << >>),
           Resp(S302, << << LOCL, UrlTok(2) >> >>, << Body >>),
           Resp(S302, << << XHdr >>, Location(1) >>, << >>) }
    \cup { Resp(S301, << Location(i) >>, << >>) : i \in DOMAIN UrlTable }

\* The bytes of SpecRead: "A"; C3, lead of a 2-byte character; EF, lead of
\* a 3-byte character; BF and BD, continuation bytes.  C3 BF is U+00FF and
\* EF BF BD is U+FFFD itself.
ByteAlphabet == {65, 195, 239, 191, 189}

ByteStreams == Seqs(ByteAlphabet, MaxLen)

\* The URLs of SpecParse: [userinfo "@"] host [":" port] under three
\* schemes; the host may be an IPv6 literal and the port may be empty.
Schemes == {"http", "https", "ftp"}

UserInfos == { << >>, << "u", "@" >>, << "u", ":", "p", "@" >> }

Hosts == { << "a" >>, << "a", "4" >>, << "[", ":", ":", "1", "]" >> }

Ports == { << >> } \cup { << ":" >> \o d : d \in Seqs({"4", "3"}, MaxPort) }

ParseUrls ==
    { Url(s, ui \o h \o p, "/") :
          s \in Schemes, ui \in UserInfos, h \in Hosts, p \in Ports }

(***************************** Browser *************************************)
\* The fetch a thread of the Browser runs is the one above; here it is two
\* blocking steps, Website(url) and get_html(), and the page it yields.
UI == 0                       \* the thread that runs the wx main loop

Workers == 1..MaxWorkers      \* the threads load_page starts

HomeEntry == << Other(6) >>   \* 'Home'

Content == << Other(7) >>     \* self.content, the home page

HttpPrefix == Other(8)        \* "http://"

HttpsPrefix == Other(9)       \* "https://"

\* what the user types into url_entry: "a.example", "http://a.example"
Typed == { << Other(10) >>, << HttpPrefix, Other(10) >> }

\* a thread that runs nothing: pc is idle | connect | get_html | deliver |
\* load | store | history | done; exc is what ended the last handler
NewThread ==
    [ pc |-> "idle", url |-> << >>, source |-> << >>, tmp |-> 0,
      exc |-> "" ]

\* state after Browser.__init__
ShellInit ==
    /\ threads = [t \in {UI} \cup Workers |-> NewThread]
    /\ history = << >>
    /\ historyPointer = -1
    /\ callAfter = << Content >>
    /\ webView = << >>

\* list[i] of Python: the position (from 1) of the item an index names,
\* counted from the end when it is negative; 0 stands for IndexError
Pos(list, i) ==
    IF i >= 0 /\ i < Len(list) THEN i + 1
    ELSE IF i < 0 /\ -i <= Len(list) THEN Len(list) + i + 1
    ELSE 0

\* "try: list[i] = v except IndexError: list.append(v)"
Store(list, i, v) ==
    IF Pos(list, i) # 0 THEN [list EXCEPT ![Pos(list, i)] = v]
    ELSE Append(list, v)

\* what get_html can return for a URL: a page or an error fragment
Sources(url) == { Resp(S200, << >>, url), ErrConn }

\* Browser.load_page: the scheme is added when missing and a thread is
\* started on fetch_html(url)
load_page ==
    /\ threads[UI].pc = "idle"
    /\ \E typed \in Typed : \E w \in Workers :
          /\ threads[w].pc = "idle"
          /\ \A v \in Workers : v < w => threads[v].pc # "idle"
          /\ LET url == IF typed[1] \in {HttpPrefix, HttpsPrefix}
                        THEN typed ELSE << HttpsPrefix >> \o typed
             IN  threads' = [threads EXCEPT
                                ![w] = [@ EXCEPT !.pc = "connect",
                                                 !.url = url],
                                ![UI] = [@ EXCEPT !.exc = ""]]
    /\ UNCHANGED <<history, historyPointer, callAfter, webView, fetcher>>

\* fetch_html / getWeb: "web = Website(url=...)", with its connect, on the
\* thread t
WebsiteNew(t) ==
    /\ threads[t].pc = "connect"
    /\ threads' = [threads EXCEPT ![t].pc = "get_html"]
    /\ UNCHANGED <<history, historyPointer, callAfter, webView, fetcher>>

\* fetch_html / getWeb: "source = web.get_html()", with its sendall and
\* recv, on the thread t
WebGetHtml(t) ==
    /\ threads[t].pc = "get_html"
    /\ \E source \in Sources(threads[t].url) :
          threads' = [threads EXCEPT ![t] = [@ EXCEPT !.pc = "deliver",
                                                     !.source = source]]
    /\ UNCHANGED <<history, historyPointer, callAfter, webView, fetcher>>

\* fetch_html / getWeb: the page goes to wx.CallAfter and web is closed;
\* getWeb ends here (its locals are gone), fetch_html goes on to the history
SetPageLater(t) ==
    /\ threads[t].pc = "deliver"
    /\ Len(callAfter) < MaxQueue
    /\ callAfter' = Append(callAfter,
                           IF threads[t].source # << >>
                           THEN threads[t].source ELSE ErrFailed)
    /\ threads' = [threads EXCEPT
                      ![t] = IF t = UI THEN NewThread
                             ELSE [@ EXCEPT !.pc = "load", !.source = << >>]]
    /\ UNCHANGED <<history, historyPointer, webView, fetcher>>

\* fetch_html: "self.historyPointer += 1", its read
PointerLoad(w) ==
    /\ w \in Workers
    /\ threads[w].pc = "load"
    /\ threads' = [threads EXCEPT ![w] = [@ EXCEPT !.pc = "store",
                                                   !.tmp = historyPointer]]
    /\ UNCHANGED <<history, historyPointer, callAfter, webView, fetcher>>

\* fetch_html: "self.historyPointer += 1", its write
PointerStore(w) ==
    /\ w \in Workers
    /\ threads[w].pc = "store"
    /\ historyPointer' = threads[w].tmp + 1
    /\ threads' = [threads EXCEPT ![w] = [@ EXCEPT !.pc = "history",
                                                   !.tmp = 0]]
    /\ UNCHANGED <<history, callAfter, webView, fetcher>>

\* fetch_html: the URL is stored at the pointer, or appended
HistoryStore(w) ==
    /\ w \in Workers
    /\ threads[w].pc = "history"
    /\ history' = Store(history, historyPointer, threads[w].url)
    /\ threads' = [threads EXCEPT ![w] = [NewThread EXCEPT !.pc = "done"]]
    /\ UNCHANGED <<historyPointer, callAfter, webView, fetcher>>

\* Browser.home, bound to the home button: the event is neither of the two
\* marker strings
home ==
    /\ threads[UI].pc = "idle"
    /\ Len(callAfter) < MaxQueue
    /\ callAfter' = Append(callAfter, Content)
    /\ history' = Store(history, historyPointer, HomeEntry)
    /\ threads' = [threads EXCEPT ![UI].exc = ""]
    /\ UNCHANGED <<historyPointer, webView, fetcher>>

\* Browser.getWeb at the pointer ptr, up to the construction of the
\* Website: the main-loop thread after the call
getWeb(ptr) ==
    IF Pos(history, ptr) = 0
    THEN [threads[UI] EXCEPT !.exc = "IndexError"]
    ELSE [threads[UI] EXCEPT !.pc = "connect", !.exc = "",
                             !.url = history[Pos(history, ptr)]]

\* Browser.refreshPage
refreshPage ==
    /\ threads[UI].pc = "idle"
    /\ IF historyPointer # -1 /\ Pos(history, historyPointer) = 0
       THEN /\ threads' = [threads EXCEPT ![UI].exc = "IndexError"]
            /\ UNCHANGED callAfter
       ELSE IF historyPointer = -1
               \/ history[Pos(history, historyPointer)] = HomeEntry
       THEN /\ Len(callAfter) < MaxQueue
            /\ callAfter' = Append(callAfter, Content)
            /\ threads' = [threads EXCEPT ![UI].exc = ""]
       ELSE /\ threads' = [threads EXCEPT ![UI] = getWeb(historyPointer)]
            /\ UNCHANGED callAfter
    /\ UNCHANGED <<history, historyPointer, webView, fetcher>>

\* Browser.backward
backward ==
    /\ threads[UI].pc = "idle"
    /\ IF historyPointer > 0
       THEN /\ historyPointer' = historyPointer - 1
            /\ threads' = [threads EXCEPT
                              ![UI] = getWeb(historyPointer - 1)]
            /\ UNCHANGED callAfter
       ELSE IF historyPointer = 0
       THEN /\ Len(callAfter) < MaxQueue
            /\ historyPointer' = historyPointer - 1
            /\ callAfter' = Append(callAfter, Content)
            /\ threads' = [threads EXCEPT ![UI].exc = ""]
       ELSE /\ threads' = [threads EXCEPT ![UI].exc = ""]
            /\ UNCHANGED <<historyPointer, callAfter>>
    /\ UNCHANGED <<history, webView, fetcher>>

\* Browser.forward
forward ==
    /\ threads[UI].pc = "idle"
    /\ IF historyPointer < Len(history) - 1
       THEN /\ historyPointer' = historyPointer + 1
            /\ threads' = [threads EXCEPT
                              ![UI] = getWeb(historyPointer + 1)]
       ELSE /\ threads' = [threads EXCEPT ![UI].exc = ""]
            /\ UNCHANGED historyPointer
    /\ UNCHANGED <<history, callAfter, webView, fetcher>>

\* the main loop runs a call wx.CallAfter queued: webView.SetPage(page)
SetPage ==
    /\ threads[UI].pc = "idle"
    /\ callAfter # << >>
    /\ webView' = Head(callAfter)
    /\ callAfter' = Tail(callAfter)
    /\ UNCHANGED <<threads, history, historyPointer, fetcher>>

(************************** specifications *********************************)
\* One fetch of the shell, any URL of the table, any peers.
Init ==
    /\ frames = << >>
    /\ sockets = << >>
    /\ server = LineStreams
    /\ returned = << >>
    /\ ShellInit

Next ==
    \/ Begin(Range(UrlTable), 1)
    \/ Construct
    \/ Propagate
    \/ Send
    \/ Recv
    \/ Redirect
    \/ Unwind
    \/ Deliver

Spec == Init /\ [][Next]_vars

\* The reader: repeated fetches of one URL from a peer that always sends
\* the same bytes, cut by recv in every possible way.
InitRead ==
    /\ frames = << >>
    /\ sockets = << >>
    /\ server \in { {s} : s \in ByteStreams }
    /\ returned = << >>
    /\ ShellInit

NextRead ==
    \/ Begin({UrlTable[1]}, MaxCalls)
    \/ Construct
    \/ Send
    \/ Recv
    \/ Deliver

SpecRead == InitRead /\ [][NextRead]_vars

\* The URL parser: __init__ applied to every URL of a grid.
InitParse ==
    /\ frames \in { << NewWebsite(u) >> : u \in ParseUrls }
    /\ sockets = << >>
    /\ server = { << >> }
    /\ returned = << >>
    /\ ShellInit

NextParse ==
    \/ Construct
    \/ Propagate

SpecParse == InitParse /\ [][NextParse]_vars

\* The Browser: the user's clicks in any order while the workers run.
InitUI ==
    /\ frames = << >>
    /\ sockets = << >>
    /\ server = { << >> }
    /\ returned = << >>
    /\ ShellInit

NextUI ==
    \/ load_page
    \/ home
    \/ refreshPage
    \/ backward
    \/ forward
    \/ SetPage
    \/ \E t \in {UI} \cup Workers : WebsiteNew(t)
    \/ \E t \in {UI} \cup Workers : WebGetHtml(t)
    \/ \E t \in {UI} \cup Workers : SetPageLater(t)
    \/ \E w \in Workers : PointerLoad(w)
    \/ \E w \in Workers : PointerStore(w)
    \/ \E w \in Workers : HistoryStore(w)

SpecUI == InitUI /\ [][NextUI]_vars

(******************************* claims ************************************)
StatusLine(response) == Split(response, CRLF)[1]

RedirectLines == { << S301 >>, << S302 >> }

IsLocationLine(line) == line # << >> /\ line[1] \in {LocationHdr, LOCL}

HasLocationLine(response) ==
    \E i \in DOMAIN Split(response, CRLF) :
        IsLocationLine(Split(response, CRLF)[i])

\* the Website at depth h has left its read loop through "break" with a
\* response in hand
ReadAll(h) == frames[h].eof /\ frames[h].assigned

\* the fetch number c ended by handing a page to the view
Delivered(c) == c \in DOMAIN returned /\ returned[c].kind = "return"

\* C1: every fetch the shell has finished ended by returning a string; no
\* exception left Website(url) or get_html().
C1_NeverRaises ==
    \A c \in DOMAIN returned : returned[c].kind = "return"

\* C2: a Website whose first recv returned zero bytes returns the "empty
\* response" fragment.
C2_EmptyResponseFragment ==
    \A h \in DOMAIN frames :
        (frames[h].eof /\ frames[h].response_latin1 = << >>
            /\ frames[h].pc = "returned")
        => frames[h].result = ErrEmpty

\* C3: when the stream the peer sent is valid UTF-8 as a whole, the text
\* selected at the end of the read loop is the UTF-8 decoding of the whole
\* stream, however recv cut it.
C3_ValidUtf8SelectsUtf8 ==
    \A h \in DOMAIN frames : \A s \in server :
        (ReadAll(h) /\ IsValidUtf8(s))
        => frames[h].response = DecodeUtf8(s)

\* the fetch number c got a connection on which the request went out and
\* the whole stream came in, without a transport error
Complete(c) ==
    /\ Delivered(c)
    /\ \E k \in DOMAIN sockets :
          /\ sockets[k].call = c
          /\ sockets[k].state = "connected"
          /\ sockets[k].sent # << >>
          /\ sockets[k].rest = << >>

\* C4: two fetches of the same URL to which the peer sent the same stream
\* return the same text, however recv cut the stream in either.
C4_SameStreamSameText ==
    \A c, d \in DOMAIN returned :
        (Complete(c) /\ Complete(d)) => returned[c].val = returned[d].val

\* C5: once a fetch has delivered its result, every socket created during
\* it has been closed exactly once.
C5_EverySocketClosedOnce ==
    \A k \in DOMAIN sockets :
        Delivered(sockets[k].call) => sockets[k].closes = 1

\* C6 as stated: once the request has been sent on the connection of a
\* redirect target, the connection that carried the redirecting response
\* has been closed.
C6_ClosedBeforeRequest ==
    \A h \in DOMAIN frames :
        (h > 1 /\ frames[h].sock # NoSocket
            /\ sockets[frames[h].sock].sent # << >>)
        => sockets[frames[h - 1].sock].closes >= 1

\* C6 as amended: the connection that carried a redirecting response stays
\* open while the redirect target is fetched (every Website on the stack
\* still holds its connection unclosed); connections are closed in the
\* reverse order of their opening, none more than once; and every
\* connection that was established is closed when the result is delivered.
C6_ClosedAfterTargetReturns ==
    /\ \A h \in DOMAIN frames :
          frames[h].sock # NoSocket => sockets[frames[h].sock].closes = 0
    /\ \A j, k \in DOMAIN sockets :
          (j < k /\ sockets[j].call = sockets[k].call
              /\ sockets[j].closes >= 1 /\ sockets[k].state # "failed")
          => sockets[k].closes >= 1
    /\ \A k \in DOMAIN sockets :
          /\ sockets[k].closes <= 1
          /\ (Delivered(sockets[k].call) /\ sockets[k].state # "failed")
             => sockets[k].closes = 1

\* C6, its case: the response is being read on the connection of a
\* redirect target while the redirecting connection is still open.
C6_Witness ==
    /\ Len(frames) = 2
    /\ frames[2].pc = "recv"
    /\ frames[2].assigned
    /\ frames[1].sock # NoSocket
    /\ sockets[frames[1].sock].closes = 0

\* the response the Website at depth h read names a redirect in its status
\* line and carries a Location header with the non-empty value loc
RedirectsTo(h, loc) ==
    /\ ReadAll(h)
    /\ StatusLine(frames[h].response) \in RedirectLines
    /\ get_location(frames[h].response).found
    /\ get_location(frames[h].response).value = loc
    /\ loc # << >>

\* C7: a Website that read a 301/302 response with a Location value L
\* returns exactly what the pipeline run on L returned.
C7_ResultIsTargetResult ==
    [][ \A h \in DOMAIN frames :
          ( /\ RedirectsTo(h, get_location(frames[h].response).value)
            /\ frames[h].pc # "returned"
            /\ h \in DOMAIN frames'
            /\ frames'[h].pc = "returned" )
          => /\ Len(frames) = h + 1
             /\ frames[h + 1].url = UrlOfText(frames[h].new_location)
             /\ frames[h].new_location
                   = get_location(frames[h].response).value
             /\ frames[h + 1].pc = "returned"
             /\ frames'[h].result = frames[h + 1].result ]_vars

\* C8: a Website that read a response with a 301/302 status line and no
\* Location line anywhere returns the "no new location" fragment and has
\* created no Website and no socket for a further hop.
C8_NoLocationNoConnection ==
    \A h \in DOMAIN frames :
        ( /\ ReadAll(h)
          /\ StatusLine(frames[h].response) \in RedirectLines
          /\ ~HasLocationLine(frames[h].response) )
        => /\ frames[h].pc = "returned"
           /\ frames[h].result = ErrNoLoc
           /\ Len(frames) = h
           /\ \A k \in DOMAIN sockets :
                 sockets[k].call = CurrentCall => sockets[k].hop <= h

\* C8, its case: a redirect without any Location line has been answered.
C8_Witness ==
    \E h \in DOMAIN frames :
        /\ ReadAll(h)
        /\ StatusLine(frames[h].response) \in RedirectLines
        /\ ~HasLocationLine(frames[h].response)
        /\ frames[h].result = ErrNoLoc

\* C9: a Website that read a response whose status line is neither 301 nor
\* 302 returns the response text unchanged and starts no further hop.
C9_NonRedirectUnchanged ==
    \A h \in DOMAIN frames :
        (ReadAll(h) /\ StatusLine(frames[h].response) \notin RedirectLines)
        => /\ frames[h].pc = "returned"
           /\ frames[h].result = frames[h].response
           /\ Len(frames) = h

\* the authority ends in ":" and k >= 1 digits
ExplicitPort(netloc, k) ==
    /\ k \in 1..(Len(netloc) - 1)
    /\ netloc[Len(netloc) - k] = ":"
    /\ \A i \in (Len(netloc) - k + 1)..Len(netloc) : netloc[i] \in Digits

\* C10: after __parse_url, a URL without explicit port has port 443 under
\* https and 80 otherwise; a URL whose authority ends in ":N" has port N
\* and the authority without that suffix as its host.
C10_PortResolution ==
    \A h \in DOMAIN frames :
        LET n == frames[h].url.netloc
        IN  frames[h].pc # "init" =>
              /\ frames[h].exc # "ValueError"
              /\ (~\E k \in 1..Len(n) : ExplicitPort(n, k)) =>
                    frames[h].port
                        = (IF frames[h].url.scheme = "https" THEN 443 ELSE 80)
              /\ \A k \in 1..Len(n) : ExplicitPort(n, k) =>
                    /\ frames[h].port
                          = IntOf(SubSeq(n, Len(n) - k + 1, Len(n)))
                    /\ frames[h].host = SubSeq(n, 1, Len(n) - k - 1)

\* C12: a stream that is not valid UTF-8, read to its end in whatever
\* chunks: the text selected is the Latin-1 decoding of the whole stream,
\* and the Latin-1 projection holds no replacement character, so the
\* selection stops at the Latin-1 candidate and never reaches ISO-8859-1.
C12_InvalidUtf8SelectsLatin1 ==
    \A h \in DOMAIN frames : \A s \in server :
        (ReadAll(h) /\ ~IsValidUtf8(s))
        => /\ frames[h].response = DecodeLatin1(s)
           /\ Replacement \in Range(frames[h].response_utf8)
           /\ Replacement \notin Range(frames[h].response_latin1)

\* C12, its case: a stream of several bytes that is not valid UTF-8 has
\* been read to its end.
C12_Witness ==
    \E h \in DOMAIN frames : \E s \in server :
        /\ ReadAll(h)
        /\ ~IsValidUtf8(s)
        /\ Len(s) >= 2
        /\ frames[h].response = frames[h].response_latin1

\* C16: when the read loop has ended through "break", the text handed to
\* handle_status is the decoding of the whole stream under one of the
\* candidate encodings, however recv cut the stream.
C16_WholeStreamOneEncoding ==
    \A h \in DOMAIN frames : \A s \in server :
        ReadAll(h)
        => frames[h].response
              \in {DecodeUtf8(s), DecodeLatin1(s), DecodeIso(s)}

\* C16, its case: a stream with a multi-byte character has been read to
\* its end and the UTF-8 text of the whole stream was selected.
C16_Witness ==
    \E h \in DOMAIN frames : \E s \in server :
        /\ ReadAll(h)
        /\ \E i \in DOMAIN s : s[i] >= 128
        /\ frames[h].response = DecodeUtf8(s)
        /\ frames[h].pc = "returned"

\* C18: get_html never returns the "Unknown Encoding" fragment: after
\* every chunk the Latin-1 and ISO-8859-1 projections are free of the
\* replacement character, so the last else of the selection is never taken.
C18_NeverUnknownEncoding ==
    /\ \A h \in DOMAIN frames :
          /\ frames[h].result # ErrEncoding
          /\ Replacement \notin Range(frames[h].response_latin1)
          /\ Replacement \notin Range(frames[h].response_iso)
    /\ \A c \in DOMAIN returned : returned[c].val # ErrEncoding

\* C18, its case: the UTF-8 projection holds a replacement character and
\* get_html has returned the Latin-1 text.
C18_Witness ==
    \E h \in DOMAIN frames :
        /\ Replacement \in Range(frames[h].response_utf8)
        /\ frames[h].pc = "returned"
        /\ frames[h].result = frames[h].response_latin1

\* C13: on every connection that was opened at most one request is ever
\* written and none on a connection that failed; once sendall has returned
\* there is exactly one, and it is "GET <path> HTTP/1.1" with the path of
\* the URL alone ("/" when it is empty) followed by the Host and
\* "Connection: close" headers and nothing else.
C13_OneRequestPathOnly ==
    /\ \A k \in DOMAIN sockets :
          /\ Len(sockets[k].sent) <= 1
          /\ sockets[k].state = "failed" => sockets[k].sent = << >>
    /\ \A h \in DOMAIN frames :
          frames[h].sock # NoSocket =>
             LET sent == sockets[frames[h].sock].sent
             IN  /\ (frames[h].pc \in {"recv", "redirect", "wait"}
                        \/ frames[h].eof) => Len(sent) = 1
                 /\ \A i \in DOMAIN sent :
                       sent[i] =
                         [ method |-> "GET",
                           target |-> << IF frames[h].url.path # ""
                                         THEN frames[h].url.path ELSE "/" >>,
                           version |-> "HTTP/1.1",
                           headers |-> << << "Host", frames[h].host >>,
                                          << "Connection",
                                             << "close" >> >> >> ]

\* C13, its case: the request for a URL with an empty path and a query has
\* been written and answered.
C13_Witness ==
    \E h \in DOMAIN frames :
        /\ frames[h].url.path = ""
        /\ frames[h].url.query # ""
        /\ frames[h].sock # NoSocket
        /\ frames[h].eof
        /\ sockets[frames[h].sock].sent # << >>
        /\ sockets[frames[h].sock].sent[1].target = << "/" >>

C15_FailedConnectNoConnection ==
    \A k \in DOMAIN sockets :
        sockets[k].state = "failed" =>
            /\ sockets[k].sent = << >>
            /\ sockets[k].rest = << >>
            /\ \A j \in DOMAIN sockets :
                  (sockets[j].call = sockets[k].call
                      /\ sockets[j].hop = sockets[k].hop) => j = k
            /\ (sockets[k].call = CurrentCall
                   /\ sockets[k].hop \in DOMAIN frames) =>
                  LET web == frames[sockets[k].hop]
                  IN  /\ web.sock = NoSocket
                      /\ web.pc \in {"send", "returned"}
                      /\ web.pc = "returned" => web.result = ErrConn
            /\ (sockets[k].hop = 1 /\ sockets[k].call \in DOMAIN returned) =>
                  returned[sockets[k].call]
                      = [kind |-> "return", val |-> ErrConn]

\* the sockets created during the fetch in progress
CurrentSockets == {k \in DOMAIN sockets : sockets[k].call = CurrentCall}

\* C17 as stated: redirect following has no depth limit; at every depth a
\* Website that has decided to follow a redirect goes on to construct the
\* Website of the target, so a fetch ends only through a response that is
\* not a followed redirect.
C17_NoDepthLimit ==
    [][ \A h \in DOMAIN frames :
          (frames[h].pc = "redirect" /\ h \in DOMAIN frames'
              /\ frames'[h].pc # "redirect")
          => /\ frames'[h].pc = "wait"
             /\ Len(frames') = h + 1 ]_vars

\* C17 as amended: below the nesting the interpreter allows, every followed
\* redirect constructs the Website of its target, whatever URL it names
\* (no cycle detection), one socket is created per hop, and the result of
\* the target is passed down unchanged; at the deepest nesting the call
\* fails and the "error receiving data" fragment is passed down instead.
C17_FollowsUntilRecursionLimit ==
    [][ /\ (frames # << >> /\ Top.pc \in {"send", "recv", "redirect"})
              => Cardinality(CurrentSockets) = Len(frames)
        /\ \A h \in DOMAIN frames :
              /\ (frames[h].pc = "redirect" /\ h \in DOMAIN frames'
                     /\ frames'[h].pc # "redirect")
                 => IF h < MaxHops
                    THEN /\ frames'[h].pc = "wait"
                         /\ Len(frames') = h + 1
                         /\ frames'[h + 1]
                               = NewWebsite(UrlOfText(frames[h].new_location))
                    ELSE /\ frames'[h].pc = "returned"
                         /\ frames'[h].result = ErrRecv
                         /\ Len(frames') = h
              /\ (frames[h].pc = "wait" /\ h \in DOMAIN frames'
                     /\ frames'[h].pc # "wait")
                 => /\ Len(frames) = h + 1
                    /\ frames'[h].pc = "returned"
                    /\ frames'[h].result
                          = (IF frames[h + 1].pc = "returned"
                             THEN frames[h + 1].result ELSE ErrRecv) ]_vars

\* C17, its case: a redirect cycle (the deepest Website is sent back to the
\* URL of the first) has used one connection per hop up to the deepest
\* nesting, and the deepest Website has returned the error fragment.
C17_Witness ==
    /\ Len(frames) = MaxHops
    /\ Top.eof
    /\ Top.new_location # << >>
    /\ UrlOfText(Top.new_location) = frames[1].url
    /\ Top.pc = "returned"
    /\ Top.result = ErrRecv
    /\ Cardinality(CurrentSockets) = MaxHops
    /\ \A k \in CurrentSockets : sockets[k].sent # << >>

\* C11: every fetch runs on a worker thread; the thread of the main loop is
\* never inside Website(url) or get_html(), the calls that connect, send
\* and receive.
C11_UiNeverBlocks ==
    threads[UI].pc \notin {"connect", "get_html"}

\* C19: whenever the main loop is free to run a handler, the pointer lies
\* between -1 and the last index of the history, and no handler has ended
\* with an IndexError.
C19_PointerInRange ==
    /\ threads[UI].pc = "idle" =>
          (historyPointer >= -1 /\ historyPointer <= Len(history) - 1)
    /\ threads[UI].exc # "IndexError"

\* C20: when backward or forward (a step of the main loop that changes the
\* pointer) moves the pointer onto an entry that holds 'Home', the home page
\* is queued for display and the main loop constructs no Website.
C20_HomeEntryShowsHome ==
    [][ ( /\ threads[UI].pc = "idle"
          /\ \A w \in Workers : threads'[w] = threads[w]
          /\ historyPointer' # historyPointer
          /\ historyPointer' >= 0
          /\ Pos(history, historyPointer') # 0
          /\ history[Pos(history, historyPointer')] = HomeEntry )
        => /\ threads'[UI].pc = "idle"
           /\ callAfter' = Append(callAfter, Content) ]_vars

====
